---- MODULE Spec2Model ----
(***************************************************************************)
(* Model of yew-bulma-search-select: the Selection enum (selection.rs) and *)
(* the SelectState container (state.rs) that combines an option list, a    *)
(* selection and a memoised filter result.                                 *)
(*                                                                         *)
(* Encoding.  Rust indices are 0-based, TLA+ sequences 1-based: the item   *)
(* at Rust index i is options[i + 1].  Option<X> is the set of at most one *)
(* X ({} is None, {x} is Some(x)).  A String is the sequence of its chars. *)
(* The RwLocks are only ever taken by non-panicking code, so no lock is    *)
(* ever poisoned and every `if let Ok(..)` takes its Ok branch.  The async *)
(* functions of state.rs contain no pending await, so each runs to its end *)
(* once polled: one action per call.                                       *)
(***************************************************************************)
EXTENDS Integers, Sequences, FiniteSets, TLC

\* Longest option list drawn for construction and replacement (besides the
\* example's six-item list).
MaxLen == 2

\* Most futures given to send_future and not yet run.
MaxPending == 2

(***************************************************************************)
(* Items: the example's `Data { name, value }` (main.rs).                  *)
(***************************************************************************)
Data(name, value) == [name |-> name, value |-> value]

First  == Data(<<"F", "i", "r", "s", "t">>, 0)
Second == Data(<<"S", "e", "c", "o", "n", "d">>, 1)
Third  == Data(<<"T", "h", "i", "r", "d">>, 2)
Fourth == Data(<<"F", "o", "u", "r", "t", "h">>, 3)
Fifth  == Data(<<"F", "i", "f", "t", "h">>, 4)
SomethingElse ==
    Data(<<"S", "o", "m", "e", "t", "h", "i", "n", "g", " ", "e", "l", "s", "e", " ",
           "w", "i", "t", "h", " ", "\"", "f", "i", "r", "s", "t", "\"">>, 5)

\* The list `test_data` of the example application.
ExampleList == <<First, Second, Third, Fourth, Fifth, SomethingElse>>

\* A further item with an empty name, equal to First by value but not by name.
Blank == Data(<<>>, 0)

\* The items short lists are drawn from.
Items == {First, Blank}

RECURSIVE ListsOfLen(_)
ListsOfLen(n) ==
    IF n = 0 THEN {<<>>}
    ELSE {Append(l, x) : l \in ListsOfLen(n - 1), x \in Items}

\* Every option list a caller passes in this model.
Lists == UNION {ListsOfLen(n) : n \in 0..MaxLen}

\* Search strings typed by the user.
Queries == {<<>>, <<"f", "i", "r", "s", "t">>, <<"x">>}

(***************************************************************************)
(* Strings                                                                 *)
(***************************************************************************)
\* char::to_lowercase on the letters that occur in the items and queries.
LowerChar(c) ==
    CASE c = "F" -> "f"
      [] c = "S" -> "s"
      [] c = "T" -> "t"
      [] OTHER -> c

\* str::to_lowercase
to_lowercase(s) == [k \in 1..Len(s) |-> LowerChar(s[k])]

\* str::find(..).is_some(): needle occurs in hay (the empty needle always does).
Contains(hay, needle) ==
    \E k \in 0..(Len(hay) - Len(needle)) :
        SubSeq(hay, k + 1, k + Len(needle)) = needle

(***************************************************************************)
(* SelectFilter: the caller's predicate (item, input) -> bool.             *)
(*   "contains_ci": the example's case-insensitive substring search.       *)
(*   "exact":       the item's name is the input, case-sensitively.        *)
(***************************************************************************)
FilterFns == {"contains_ci", "exact"}

SelectFilter_call(fn, item, input) ==
    IF fn = "contains_ci"
    THEN Contains(to_lowercase(item.name), to_lowercase(input))
    ELSE item.name = input

(***************************************************************************)
(* The caller's equality for replace_options_reselecting.                  *)
(*   "partial_eq": the derived PartialEq of Data (name and value).         *)
(*   "by_value":   the value fields are equal.                             *)
(***************************************************************************)
EqFns == {"partial_eq", "by_value"}

selection_eq(eq, a, b) ==
    IF eq = "partial_eq" THEN a = b ELSE a.value = b.value

(***************************************************************************)
(* Selection (selection.rs)                                                *)
(***************************************************************************)
Selection_one(index) == [tag |-> "AlwaysOne", idx |-> index]
Selection_some(index) == [tag |-> "MaybeOne", opt |-> {index}]
Selection_none == [tag |-> "MaybeOne", opt |-> {}]
Selection_empty == [tag |-> "Multiple", set |-> {}]
Selection_multiple(indices) == [tag |-> "Multiple", set |-> indices]

\* Selection::as_set
as_set(sel) ==
    CASE sel.tag = "AlwaysOne" -> {sel.idx}
      [] sel.tag = "MaybeOne" -> sel.opt
      [] sel.tag = "Multiple" -> sel.set

\* Selection::len
len(sel) ==
    CASE sel.tag = "AlwaysOne" -> 1
      [] sel.tag = "MaybeOne" -> IF sel.opt = {} THEN 0 ELSE 1
      [] sel.tag = "Multiple" -> Cardinality(sel.set)

\* Selection::is_empty
is_empty(sel) ==
    CASE sel.tag = "AlwaysOne" -> FALSE
      [] sel.tag = "MaybeOne" -> sel.opt = {}
      [] sel.tag = "Multiple" -> sel.set = {}

\* Selection::includes
includes(sel, i) ==
    CASE sel.tag = "AlwaysOne" -> sel.idx = i
      [] sel.tag = "MaybeOne" -> sel.opt # {} /\ sel.opt = {i}
      [] sel.tag = "Multiple" -> i \in sel.set

is_multiple(sel) == sel.tag = "Multiple"

is_nullable(sel) == sel.tag # "AlwaysOne"

\* Selection::select with the ZeroOrMany branch storing the index alone
\* instead of inserting it.
Selection_select_ReplacesSet(sel, index) ==
    CASE sel.tag = "AlwaysOne" ->
            IF index # sel.idx
            THEN [sel |-> Selection_one(index), changed |-> TRUE]
            ELSE [sel |-> sel, changed |-> FALSE]
      [] sel.tag = "MaybeOne" ->
            [sel |-> Selection_some(index),
             changed |-> IF sel.opt # {} THEN sel.opt # {index} ELSE TRUE]
      [] sel.tag = "Multiple" ->
            [sel |-> Selection_multiple({index}),
             changed |-> index \notin sel.set]

\* Selection::select: the selection afterwards and the returned bool.
Selection_select(sel, index) ==
    CASE sel.tag = "AlwaysOne" ->
            IF index # sel.idx
            THEN [sel |-> Selection_one(index), changed |-> TRUE]
            ELSE [sel |-> sel, changed |-> FALSE]
      [] sel.tag = "MaybeOne" ->
            \* Option::replace stores Some(index) and hands back the old value
            [sel |-> Selection_some(index),
             changed |-> IF sel.opt # {} THEN sel.opt # {index} ELSE TRUE]
      [] sel.tag = "Multiple" ->
            \* BTreeSet::insert is true iff the value was not present
            [sel |-> Selection_multiple(sel.set \cup {index}),
             changed |-> index \notin sel.set]

\* Selection::deselect with the ExactlyOne branch falling back to index 0
\* when the selected index is deselected.
Selection_deselect_ResetsAlwaysOne(sel, index) ==
    CASE sel.tag = "AlwaysOne" ->
            IF index = sel.idx
            THEN [sel |-> Selection_one(0), changed |-> TRUE]
            ELSE [sel |-> sel, changed |-> FALSE]
      [] sel.tag = "MaybeOne" ->
            IF sel.opt = {} THEN [sel |-> sel, changed |-> FALSE]
            ELSE IF sel.opt = {index}
                 THEN [sel |-> Selection_none, changed |-> TRUE]
                 ELSE [sel |-> sel, changed |-> FALSE]
      [] sel.tag = "Multiple" ->
            [sel |-> Selection_multiple(sel.set \ {index}),
             changed |-> index \in sel.set]

\* Selection::deselect with the ZeroOrOne branch not comparing the index.
Selection_deselect_IgnoresIndex(sel, index) ==
    CASE sel.tag = "AlwaysOne" -> [sel |-> sel, changed |-> FALSE]
      [] sel.tag = "MaybeOne" ->
            IF sel.opt = {} THEN [sel |-> sel, changed |-> FALSE]
            ELSE [sel |-> Selection_none, changed |-> TRUE]
      [] sel.tag = "Multiple" ->
            [sel |-> Selection_multiple(sel.set \ {index}),
             changed |-> index \in sel.set]

\* Selection::deselect
Selection_deselect(sel, index) ==
    CASE sel.tag = "AlwaysOne" -> [sel |-> sel, changed |-> FALSE]
      [] sel.tag = "MaybeOne" ->
            IF sel.opt = {} THEN [sel |-> sel, changed |-> FALSE]
            ELSE IF sel.opt = {index}
                 THEN [sel |-> Selection_none, changed |-> TRUE]
                 ELSE [sel |-> sel, changed |-> FALSE]
      [] sel.tag = "Multiple" ->
            \* BTreeSet::remove is true iff the value was present
            [sel |-> Selection_multiple(sel.set \ {index}),
             changed |-> index \in sel.set]

\* Selection::clear with the ZeroOrMany branch missing its is_empty test.
Selection_clear_AlwaysTrue(sel) ==
    CASE sel.tag = "AlwaysOne" -> [sel |-> sel, changed |-> FALSE]
      [] sel.tag = "MaybeOne" ->
            IF sel.opt = {} THEN [sel |-> sel, changed |-> FALSE]
            ELSE [sel |-> Selection_none, changed |-> TRUE]
      [] sel.tag = "Multiple" ->
            [sel |-> Selection_multiple({}), changed |-> TRUE]

\* Selection::clear with the ExactlyOne branch emptying the selection.
Selection_clear_EmptiesAlwaysOne(sel) ==
    CASE sel.tag = "AlwaysOne" -> [sel |-> Selection_none, changed |-> TRUE]
      [] sel.tag = "MaybeOne" ->
            IF sel.opt = {} THEN [sel |-> sel, changed |-> FALSE]
            ELSE [sel |-> Selection_none, changed |-> TRUE]
      [] sel.tag = "Multiple" ->
            IF sel.set = {} THEN [sel |-> sel, changed |-> FALSE]
            ELSE [sel |-> Selection_multiple({}), changed |-> TRUE]

\* Selection::clear
Selection_clear(sel) ==
    CASE sel.tag = "AlwaysOne" -> [sel |-> sel, changed |-> FALSE]
      [] sel.tag = "MaybeOne" ->
            IF sel.opt = {} THEN [sel |-> sel, changed |-> FALSE]
            ELSE [sel |-> Selection_none, changed |-> TRUE]
      [] sel.tag = "Multiple" ->
            IF sel.set = {} THEN [sel |-> sel, changed |-> FALSE]
            ELSE [sel |-> Selection_multiple({}), changed |-> TRUE]

(***************************************************************************)
(* Filtered (state.rs)                                                     *)
(***************************************************************************)
Filtered_None == [tag |-> "None"]
Filtered_Some(set) == [tag |-> "Some", set |-> set]
Filtered_All == [tag |-> "All"]

(***************************************************************************)
(* SelectState (state.rs): one handle.                                     *)
(***************************************************************************)
VARIABLES
    options,            \* Arc<[T]>: the option list of the handle
    selected_indices,   \* Arc<RwLock<Selection>>
    filtered_indices,   \* Arc<RwLock<Filtered>>
    filter_fn,          \* SelectFilter<T>
    filter_input,       \* Arc<RwLock<Option<String>>>
    op,                 \* the last call: [name, arg], arg its index, input or equality
    ret,                \* what select / deselect / clear returned last (else FALSE)
    new_in_range,       \* SelectState::new got a selection within its list
    clone,              \* Option<SelectState<T>>: a second handle, made by clone()
    props,              \* Option<SelectProps<T>>: the properties of a mounted Select
    focused,            \* Select::focused
    selection_index,    \* Select::selection_index
    search_text,        \* Select::search_text
    messages,           \* the messages sent to a component and not yet handled
    futures             \* the futures given to send_future and not yet run

\* The fields of the Select component and what its link holds.
Select_vars == <<props, focused, selection_index, search_text, messages, futures>>

vars == <<options, selected_indices, filtered_indices, filter_fn, filter_input,
          op, ret, new_in_range, clone, Select_vars>>

\* The allocation Arc::new makes for each Arc<RwLock<..>> field in
\* SelectState::new; the variables selected_indices, filtered_indices and
\* filter_input hold what it contains, a handle holds a pointer to it.
Arc_new == "Arc::new"

\* A write through an Arc<RwLock<..>> of a handle: it lands in the allocation
\* the pointer names.
write(arc, cell, value) == IF arc = Arc_new THEN value ELSE cell

\* A read through an Arc<RwLock<..>> of a handle: what the allocation the
\* pointer names contains.
read(arc, cell) == IF arc = Arc_new THEN {cell} ELSE {}

\* The handle SelectState::new returned.
self ==
    [options |-> options, selected_indices |-> Arc_new, filtered_indices |-> Arc_new,
     filter_fn |-> filter_fn, filter_input |-> Arc_new]

\* Select::create
Select_create ==
    /\ focused = FALSE
    /\ selection_index = 0
    /\ search_text = <<>>
    /\ messages = <<>>
    /\ futures = <<>>

\* The indices of a list.
Indices(opts) == 0..(Len(opts) - 1)

\* The selections a caller constructs over a list: the example's three, and
\* for a short list every variant over the indices 0..len (len is out of range).
Selections(opts) ==
    IF opts = ExampleList
    THEN {Selection_one(0), Selection_none, Selection_empty}
    ELSE {Selection_one(i) : i \in 0..Len(opts)}
         \cup {Selection_none}
         \cup {Selection_some(i) : i \in 0..Len(opts)}
         \cup {Selection_multiple(s) : s \in SUBSET (0..Len(opts))}

\* SelectState::new
Init ==
    /\ options \in Lists \cup {ExampleList}
    /\ selected_indices \in Selections(options)
    /\ filtered_indices = Filtered_All
    /\ filter_fn \in FilterFns
    /\ filter_input = {}
    /\ op = [name |-> "new", arg |-> 0]
    /\ ret = FALSE
    /\ new_in_range = (as_set(selected_indices) \subseteq Indices(options))
    /\ clone = {}
    /\ props = {}
    /\ Select_create

\* SelectState::select with the bounds test off by one (> for >=).
SelectState_select_OffByOne(opts, sel, index) ==
    IF index > Len(opts)
    THEN [sel |-> sel, changed |-> FALSE]
    ELSE Selection_select(sel, index)

\* SelectState::select: the selection afterwards and the returned bool.
SelectState_select(opts, sel, index) ==
    IF index >= Len(opts)
    THEN [sel |-> sel, changed |-> FALSE]
    ELSE Selection_select(sel, index)

\* SelectState::deselect: the selection afterwards and the returned bool.
SelectState_deselect(opts, sel, index) ==
    IF index >= Len(opts)
    THEN [sel |-> sel, changed |-> FALSE]
    ELSE Selection_deselect(sel, index)

\* A call of SelectState::select
Select(index) ==
    /\ op' = [name |-> "select", arg |-> index]
    /\ LET r == SelectState_select(options, selected_indices, index)
       IN /\ selected_indices' = r.sel
          /\ ret' = r.changed
    /\ UNCHANGED <<options, filtered_indices, filter_fn, filter_input, new_in_range>>
    /\ UNCHANGED <<clone, Select_vars>>

\* A call of SelectState::deselect
Deselect(index) ==
    /\ op' = [name |-> "deselect", arg |-> index]
    /\ LET r == SelectState_deselect(options, selected_indices, index)
       IN /\ selected_indices' = r.sel
          /\ ret' = r.changed
    /\ UNCHANGED <<options, filtered_indices, filter_fn, filter_input, new_in_range>>
    /\ UNCHANGED <<clone, Select_vars>>

\* clear resetting the filter result together with the selection.
Clear_Unfilters ==
    /\ op' = [name |-> "clear", arg |-> 0]
    /\ LET r == Selection_clear(selected_indices)
       IN /\ selected_indices' = r.sel
          /\ ret' = r.changed
    /\ filtered_indices' = Filtered_All
    /\ UNCHANGED <<options, filter_fn, filter_input, new_in_range>>
    /\ UNCHANGED <<clone, Select_vars>>

\* A call of SelectState::clear
Clear ==
    /\ op' = [name |-> "clear", arg |-> 0]
    /\ LET r == Selection_clear(selected_indices)
       IN /\ selected_indices' = r.sel
          /\ ret' = r.changed
    /\ UNCHANGED <<options, filtered_indices, filter_fn, filter_input, new_in_range>>
    /\ UNCHANGED <<clone, Select_vars>>

\* filter_inner without its is_empty test.
filter_inner_NoEmptyTest(opts, fn, input) ==
    Filtered_Some({i \in Indices(opts) : SelectFilter_call(fn, opts[i + 1], input)})

\* SelectState::filter_inner: the value written to filtered_indices.
filter_inner(opts, fn, input) ==
    LET indices == {i \in Indices(opts) : SelectFilter_call(fn, opts[i + 1], input)}
    IN IF indices = {} THEN Filtered_None ELSE Filtered_Some(indices)

\* unfilter writing Filtered::None instead of Filtered::All.
unfilter_WritesNone == Filtered_None

\* SelectState::unfilter: the value written to filtered_indices.
unfilter == Filtered_All

\* SelectState::refilter: the value written to filtered_indices.
refilter(opts, fn, input_opt) ==
    IF input_opt # {}
    THEN filter_inner(opts, fn, CHOOSE input \in input_opt : TRUE)
    ELSE unfilter

\* SelectState::filter: the values written to filter_input and filtered_indices.
filter(opts, fn, input) ==
    IF input = <<>>
    THEN [filter_input |-> {input}, filtered_indices |-> filter_inner(opts, fn, input)]
    ELSE [filter_input |-> {}, filtered_indices |-> unfilter]

\* A call of SelectState::filter
Filter(input) ==
    /\ op' = [name |-> "filter", arg |-> input]
    /\ ret' = FALSE
    /\ LET r == filter(options, filter_fn, input)
       IN /\ filter_input' = r.filter_input
          /\ filtered_indices' = r.filtered_indices
    /\ UNCHANGED <<options, selected_indices, filter_fn, new_in_range>>
    /\ UNCHANGED <<clone, Select_vars>>

\* A call of SelectState::unfilter
Unfilter ==
    /\ op' = [name |-> "unfilter", arg |-> 0]
    /\ ret' = FALSE
    /\ filtered_indices' = unfilter
    /\ UNCHANGED <<options, selected_indices, filter_fn, filter_input, new_in_range>>
    /\ UNCHANGED <<clone, Select_vars>>

\* replace_options without its reset of the selection.
reset_selection_Keeps(sel) == sel

\* replace_options writing an empty Multiple whatever the variant.
reset_selection_AllEmpty(sel) == Selection_empty

\* replace_options: the selection written before the list is swapped.
reset_selection(sel) ==
    CASE sel.tag = "MaybeOne" -> Selection_none
      [] sel.tag = "AlwaysOne" -> Selection_one(0)
      [] sel.tag = "Multiple" -> Selection_empty

\* SelectState::replace_options: the selection is reset, refilter runs on the
\* list the handle still holds, and only then is the new list stored.
ReplaceOptions(new_options) ==
    /\ op' = [name |-> "replace_options", arg |-> 0]
    /\ ret' = FALSE
    /\ selected_indices' = reset_selection(selected_indices)
    /\ filtered_indices' = refilter(options, filter_fn, filter_input)
    /\ options' = new_options
    /\ UNCHANGED <<filter_fn, filter_input, new_in_range>>
    /\ UNCHANGED <<clone, Select_vars>>

\* slice::get
get(opts, index) == IF index < Len(opts) THEN {opts[index + 1]} ELSE {}

\* position taking the last equal element (rposition) instead of the first.
position_Last(new_options, eq, item) ==
    LET hits == {j \in Indices(new_options) : selection_eq(eq, item, new_options[j + 1])}
    IN IF hits = {} THEN {}
       ELSE {CHOOSE j \in hits : \A k \in hits : j >= k}

\* new_options.iter().position(|t| selection_eq(item, t))
position(new_options, eq, item) ==
    LET hits == {j \in Indices(new_options) : selection_eq(eq, item, new_options[j + 1])}
    IN IF hits = {} THEN {}
       ELSE {CHOOSE j \in hits : \A k \in hits : j <= k}

\* self.options.get(index).map(|item| new_options.iter().position(..)).flatten()
reselect(opts, new_options, eq, index) ==
    UNION {position(new_options, eq, item) : item \in get(opts, index)}

\* Option::unwrap_or_default on Option<usize>
unwrap_or_default(opt) == IF opt = {} THEN 0 ELSE CHOOSE x \in opt : TRUE

\* replace_options_reselecting with the ExactlyOne branch keeping the old index
\* (unwrap_or(index)) when no equal item is found.
reselect_selection_KeepsIndex(sel, opts, new_options, eq) ==
    CASE sel.tag = "MaybeOne" ->
            IF sel.opt = {} THEN sel
            ELSE [tag |-> "MaybeOne",
                  opt |-> reselect(opts, new_options, eq, CHOOSE i \in sel.opt : TRUE)]
      [] sel.tag = "AlwaysOne" ->
            LET found == reselect(opts, new_options, eq, sel.idx)
            IN Selection_one(IF found = {} THEN sel.idx ELSE CHOOSE x \in found : TRUE)
      [] sel.tag = "Multiple" ->
            Selection_multiple(
                UNION {reselect(opts, new_options, eq, i) : i \in sel.set})

\* replace_options_reselecting: the selection written before the list is swapped.
reselect_selection(sel, opts, new_options, eq) ==
    CASE sel.tag = "MaybeOne" ->
            IF sel.opt = {} THEN sel
            ELSE [tag |-> "MaybeOne",
                  opt |-> reselect(opts, new_options, eq, CHOOSE i \in sel.opt : TRUE)]
      [] sel.tag = "AlwaysOne" ->
            Selection_one(unwrap_or_default(reselect(opts, new_options, eq, sel.idx)))
      [] sel.tag = "Multiple" ->
            Selection_multiple(
                UNION {reselect(opts, new_options, eq, i) : i \in sel.set})

\* SelectState::replace_options_reselecting
ReplaceOptionsReselecting(new_options, eq) ==
    /\ op' = [name |-> "replace_options_reselecting", arg |-> eq]
    /\ ret' = FALSE
    /\ selected_indices' = reselect_selection(selected_indices, options, new_options, eq)
    /\ filtered_indices' = refilter(options, filter_fn, filter_input)
    /\ options' = new_options
    /\ UNCHANGED <<filter_fn, filter_input, new_in_range>>
    /\ UNCHANGED <<clone, Select_vars>>

(***************************************************************************)
(* A second handle: impl Clone, and the operations called through it.      *)
(***************************************************************************)
\* clone allocating a new RwLock for the selection instead of cloning the Arc.
SelectState_clone_CopiesSelection(state) ==
    [options |-> state.options,
     selected_indices |-> "Arc::new(copy)",
     filtered_indices |-> state.filtered_indices,
     filter_fn |-> state.filter_fn,
     filter_input |-> state.filter_input]

\* impl Clone for SelectState: every field is cloned, the Arcs as pointers.
SelectState_clone(state) ==
    [options |-> state.options,
     selected_indices |-> state.selected_indices,
     filtered_indices |-> state.filtered_indices,
     filter_fn |-> state.filter_fn,
     filter_input |-> state.filter_input]

\* A call of clone() on the handle new returned
Clone ==
    /\ clone = {}
    /\ clone' = {SelectState_clone(self)}
    /\ op' = [name |-> "clone", arg |-> 0]
    /\ ret' = FALSE
    /\ UNCHANGED <<options, selected_indices, filtered_indices, filter_fn, filter_input,
                   new_in_range, Select_vars>>

\* A call of select through the clone
CloneSelect(index) ==
    \E c \in clone :
        /\ op' = [name |-> "clone.select", arg |-> index]
        /\ LET r == SelectState_select(c.options, selected_indices, index)
           IN /\ selected_indices' = write(c.selected_indices, selected_indices, r.sel)
              /\ ret' = r.changed
        /\ UNCHANGED <<options, filtered_indices, filter_fn, filter_input, new_in_range,
                       clone, Select_vars>>

\* A call of deselect through the clone
CloneDeselect(index) ==
    \E c \in clone :
        /\ op' = [name |-> "clone.deselect", arg |-> index]
        /\ LET r == SelectState_deselect(c.options, selected_indices, index)
           IN /\ selected_indices' = write(c.selected_indices, selected_indices, r.sel)
              /\ ret' = r.changed
        /\ UNCHANGED <<options, filtered_indices, filter_fn, filter_input, new_in_range,
                       clone, Select_vars>>

\* A call of clear through the clone
CloneClear ==
    \E c \in clone :
        /\ op' = [name |-> "clone.clear", arg |-> 0]
        /\ LET r == Selection_clear(selected_indices)
           IN /\ selected_indices' = write(c.selected_indices, selected_indices, r.sel)
              /\ ret' = r.changed
        /\ UNCHANGED <<options, filtered_indices, filter_fn, filter_input, new_in_range,
                       clone, Select_vars>>

\* A call of filter through the clone
CloneFilter(input) ==
    \E c \in clone :
        /\ op' = [name |-> "clone.filter", arg |-> input]
        /\ ret' = FALSE
        /\ LET r == filter(c.options, c.filter_fn, input)
           IN /\ filter_input' = write(c.filter_input, filter_input, r.filter_input)
              /\ filtered_indices' =
                    write(c.filtered_indices, filtered_indices, r.filtered_indices)
        /\ UNCHANGED <<options, selected_indices, filter_fn, new_in_range,
                       clone, Select_vars>>

\* A call of unfilter through the clone
CloneUnfilter ==
    \E c \in clone :
        /\ op' = [name |-> "clone.unfilter", arg |-> 0]
        /\ ret' = FALSE
        /\ filtered_indices' = write(c.filtered_indices, filtered_indices, unfilter)
        /\ UNCHANGED <<options, selected_indices, filter_fn, filter_input, new_in_range,
                       clone, Select_vars>>

\* A call of replace_options through the clone: the list of the clone is
\* replaced, the list of the first handle stays.
CloneReplaceOptions(new_options) ==
    \E c \in clone :
        /\ op' = [name |-> "clone.replace_options", arg |-> 0]
        /\ ret' = FALSE
        /\ selected_indices' =
                write(c.selected_indices, selected_indices, reset_selection(selected_indices))
        /\ filtered_indices' =
                write(c.filtered_indices, filtered_indices,
                      refilter(c.options, c.filter_fn, filter_input))
        /\ clone' = {[c EXCEPT !.options = new_options]}
        /\ UNCHANGED <<options, filter_fn, filter_input, new_in_range, Select_vars>>

\* A call of replace_options_reselecting through the clone
CloneReplaceOptionsReselecting(new_options, eq) ==
    \E c \in clone :
        /\ op' = [name |-> "clone.replace_options_reselecting", arg |-> eq]
        /\ ret' = FALSE
        /\ selected_indices' =
                write(c.selected_indices, selected_indices,
                      reselect_selection(selected_indices, c.options, new_options, eq))
        /\ filtered_indices' =
                write(c.filtered_indices, filtered_indices,
                      refilter(c.options, c.filter_fn, filter_input))
        /\ clone' = {[c EXCEPT !.options = new_options]}
        /\ UNCHANGED <<options, filter_fn, filter_input, new_in_range, Select_vars>>

(***************************************************************************)
(* Queries of SelectState                                                  *)
(***************************************************************************)
\* Iteration of a BTreeSet<usize>: ascending.
RECURSIVE iter(_)
iter(set) ==
    IF set = {} THEN <<>>
    ELSE LET least == CHOOSE x \in set : \A y \in set : x <= y
         IN <<least>> \o iter(set \ {least})

\* Iterator::nth on the ascending iteration of a BTreeSet<usize>
nth(set, n) == IF n < Len(iter(set)) THEN {iter(set)[n + 1]} ELSE {}

\* selected_items with the set walked from its largest index down.
selected_items_Descending(opts, sel) ==
    CASE sel.tag = "MaybeOne" ->
            IF sel.opt = {} THEN <<>>
            ELSE LET index == CHOOSE i \in sel.opt : TRUE
                 IN IF get(opts, index) # {} THEN <<<<index, opts[index + 1]>>>> ELSE <<>>
      [] sel.tag = "AlwaysOne" ->
            IF get(opts, sel.idx) # {} THEN <<<<sel.idx, opts[sel.idx + 1]>>>> ELSE <<>>
      [] sel.tag = "Multiple" ->
            LET in_range == iter({i \in sel.set : get(opts, i) # {}})
                n == Len(in_range)
            IN [k \in 1..n |-> <<in_range[n + 1 - k], opts[in_range[n + 1 - k] + 1]>>]

\* SelectState::selected_items: the entries (index, item).
selected_items(opts, sel) ==
    CASE sel.tag = "MaybeOne" ->
            IF sel.opt = {} THEN <<>>
            ELSE LET index == CHOOSE i \in sel.opt : TRUE
                 IN IF get(opts, index) # {} THEN <<<<index, opts[index + 1]>>>> ELSE <<>>
      [] sel.tag = "AlwaysOne" ->
            IF get(opts, sel.idx) # {} THEN <<<<sel.idx, opts[sel.idx + 1]>>>> ELSE <<>>
      [] sel.tag = "Multiple" ->
            LET in_range == iter({i \in sel.set : get(opts, i) # {}})
            IN [k \in 1..Len(in_range) |-> <<in_range[k], opts[in_range[k] + 1]>>]

\* first_selected taking the last index of the set (next_back) for the first.
first_selected_Largest(opts, sel) ==
    CASE sel.tag = "MaybeOne" ->
            UNION {{<<index, item>> : item \in get(opts, index)} : index \in sel.opt}
      [] sel.tag = "AlwaysOne" -> {<<sel.idx, item>> : item \in get(opts, sel.idx)}
      [] sel.tag = "Multiple" ->
            IF sel.set = {} THEN {}
            ELSE LET index == CHOOSE i \in sel.set : \A j \in sel.set : i >= j
                 IN {<<index, item>> : item \in get(opts, index)}

\* SelectState::first_selected: Option<(index, item)>
first_selected(opts, sel) ==
    CASE sel.tag = "MaybeOne" ->
            UNION {{<<index, item>> : item \in get(opts, index)} : index \in sel.opt}
      [] sel.tag = "AlwaysOne" -> {<<sel.idx, item>> : item \in get(opts, sel.idx)}
      [] sel.tag = "Multiple" ->
            UNION {{<<index, item>> : item \in get(opts, index)} :
                        index \in nth(sel.set, 0)}

\* filtered_items taking the row position for the index in the is_selected flag.
filtered_items_FlagByPosition(opts, filtered, sel) ==
    CASE filtered.tag = "All" ->
            [k \in 1..Len(opts) |-> <<k - 1, includes(sel, k - 1), opts[k]>>]
      [] filtered.tag = "Some" ->
            LET in_range == iter({i \in filtered.set : get(opts, i) # {}})
            IN [k \in 1..Len(in_range) |->
                    <<in_range[k], includes(sel, k - 1), opts[in_range[k] + 1]>>]
      [] filtered.tag = "None" -> <<>>

\* SelectState::filtered_items: the entries (index, is_selected, item).
filtered_items(opts, filtered, sel) ==
    CASE filtered.tag = "All" ->
            [k \in 1..Len(opts) |-> <<k - 1, includes(sel, k - 1), opts[k]>>]
      [] filtered.tag = "Some" ->
            LET in_range == iter({i \in filtered.set : get(opts, i) # {}})
            IN [k \in 1..Len(in_range) |->
                    <<in_range[k], includes(sel, in_range[k]), opts[in_range[k] + 1]>>]
      [] filtered.tag = "None" -> <<>>

\* get_filtered taking the position for the index under a subset as well.
get_filtered_PositionIsIndex(opts, filtered, pos) ==
    CASE filtered.tag = "All" -> {<<pos, item>> : item \in get(opts, pos)}
      [] filtered.tag = "Some" ->
            IF pos < Cardinality(filtered.set)
            THEN {<<pos, item>> : item \in get(opts, pos)}
            ELSE {}
      [] filtered.tag = "None" -> {}

\* SelectState::get_filtered: Option<(index, item)>
get_filtered(opts, filtered, pos) ==
    CASE filtered.tag = "All" -> {<<pos, item>> : item \in get(opts, pos)}
      [] filtered.tag = "Some" ->
            UNION {{<<index, item>> : item \in get(opts, index)} :
                        index \in nth(filtered.set, pos)}
      [] filtered.tag = "None" -> {}

\* The set of the elements of a sequence.
Range(seq) == {seq[k] : k \in 1..Len(seq)}

(***************************************************************************)
(* The Select component (lib.rs): its messages, its view and its update.   *)
(* Messages sent while update runs are handled before the next event of    *)
(* the page; a future runs once no message is left.                        *)
(***************************************************************************)
Msg_Input(input) == [name |-> "Input", input |-> input]
Msg_ClearSearch == [name |-> "ClearSearch"]
Msg_Filtered == [name |-> "Filtered"]
Msg_Selected(idx) == [name |-> "Selected", idx |-> idx]
Msg_Removed(idx) == [name |-> "Removed", idx |-> idx]
Msg_Hover(idx) == [name |-> "Hover", idx |-> idx]
Msg_Focus == [name |-> "Focus"]
Msg_Blur == [name |-> "Blur"]
Msg_KeyPress(code) == [name |-> "KeyPress", code |-> code]

\* InputData::value: the texts typed into the search field.
Inputs == {<<>>, <<"x">>}

\* KeyboardEvent::code: the four codes update matches, and any other.
Codes == {"Enter", "Escape", "ArrowUp", "ArrowDown", "KeyA"}

\* The messages of the owning component (the example's App), made by the
\* onselected and onremoved callbacks.
App_Selected(index) == [name |-> "App::Selected", idx |-> index]
App_Cleared(index) == [name |-> "App::Cleared", idx |-> index]

\* The futures update gives to send_future.
Future_filter(input) == [name |-> "filter", input |-> input]
Future_unfilter == [name |-> "unfilter"]

\* The properties a Select is mounted with; its state is the clone.
SelectProps ==
    {p \in [omit_selected : BOOLEAN, readonly : BOOLEAN, disabled : BOOLEAN] :
        ~(p.readonly /\ p.disabled)}

\* Vec::into_iter().filter(|(_, selected, _)| !selected)
not_selected(entry) == ~entry[2]

\* Select::view: the rows of the dropdown, (idx, selected, item) each.
view_options(p, c) ==
    IF p.omit_selected
    THEN SelectSeq(filtered_items(c.options, filtered_indices, selected_indices),
                   not_selected)
    ELSE filtered_items(c.options, filtered_indices, selected_indices)

\* The messages the callbacks of the rendered view make on an event of the page.
view_callbacks(p, c) ==
    LET rows == view_options(p, c)
        multiple == is_multiple(selected_indices)
    IN {Msg_Hover(i - 1) : i \in 1..Len(rows)}
       \cup {Msg_Selected(rows[i][1]) : i \in 1..Len(rows)}
       \cup {Msg_Focus, Msg_Blur}
       \cup {Msg_KeyPress(code) : code \in Codes}
       \cup (IF multiple \/ focused THEN {Msg_Input(input) : input \in Inputs} ELSE {})
       \cup (IF multiple
             THEN {Msg_Removed(e[1]) : e \in Range(selected_items(c.options, selected_indices))}
             ELSE {})
       \cup (IF ~multiple /\ focused /\ search_text # <<>> THEN {Msg_ClearSearch} ELSE {})

\* The message handled next: the oldest one sent and not yet handled, or with
\* none left one made by an event of the page.
incoming ==
    IF messages # <<>> THEN {Head(messages)}
    ELSE UNION {view_callbacks(p, c) : p \in props, c \in clone}

\* The messages left once the next one is taken.
rest == IF messages # <<>> THEN Tail(messages) ELSE <<>>

\* What every arm of Select::update leaves alone: the state behind the handle.
update_frame(msg) ==
    /\ op' = [name |-> msg.name, arg |-> msg]
    /\ ret' = FALSE
    /\ UNCHANGED <<options, selected_indices, filtered_indices, filter_fn, filter_input,
                   new_in_range, clone, props>>

\* Msg::Filtered => true
UpdateFiltered(msg) ==
    /\ msg.name = "Filtered"
    /\ msg \in incoming
    /\ update_frame(msg)
    /\ messages' = rest
    /\ UNCHANGED <<focused, selection_index, search_text, futures>>

\* Msg::Input(input)
UpdateInput(msg) ==
    /\ msg.name = "Input"
    /\ msg \in incoming
    /\ update_frame(msg)
    /\ messages' = rest
    /\ IF \E p \in props : p.disabled \/ p.readonly
       THEN UNCHANGED <<focused, selection_index, search_text, futures>>
       ELSE /\ Len(futures) < MaxPending
            /\ focused' = TRUE
            /\ search_text' = msg.input
            /\ futures' = Append(futures, IF msg.input = <<>> THEN Future_unfilter
                                          ELSE Future_filter(msg.input))
            /\ UNCHANGED selection_index

\* Msg::ClearSearch
UpdateClearSearch(msg) ==
    /\ msg.name = "ClearSearch"
    /\ msg \in incoming
    /\ update_frame(msg)
    /\ Len(futures) < MaxPending
    /\ futures' = Append(futures, Future_unfilter)
    /\ search_text' = <<>>
    /\ messages' = rest
    /\ UNCHANGED <<focused, selection_index>>

\* Msg::Selected(idx) with the state selecting the index itself.
UpdateSelected_SelectsIndex(msg) ==
    /\ msg.name = "Selected"
    /\ msg \in incoming
    /\ op' = [name |-> msg.name, arg |-> msg]
    /\ ret' = FALSE
    /\ selected_indices' = SelectState_select(options, selected_indices, msg.idx).sel
    /\ messages' = rest \o <<App_Selected(msg.idx), Msg_ClearSearch, Msg_Blur>>
    /\ UNCHANGED <<options, filtered_indices, filter_fn, filter_input, new_in_range,
                   clone, props, focused, selection_index, search_text, futures>>

\* Msg::Selected(idx): onselected.emit(idx), then the batch ClearSearch, Blur.
UpdateSelected(msg) ==
    /\ msg.name = "Selected"
    /\ msg \in incoming
    /\ update_frame(msg)
    /\ messages' = rest \o <<App_Selected(msg.idx), Msg_ClearSearch, Msg_Blur>>
    /\ UNCHANGED <<focused, selection_index, search_text, futures>>

\* Msg::Removed(idx): onremoved.emit(idx)
UpdateRemoved(msg) ==
    /\ msg.name = "Removed"
    /\ msg \in incoming
    /\ update_frame(msg)
    /\ messages' = rest \o <<App_Cleared(msg.idx)>>
    /\ UNCHANGED <<focused, selection_index, search_text, futures>>

\* Msg::Hover(idx)
UpdateHover(msg) ==
    /\ msg.name = "Hover"
    /\ msg \in incoming
    /\ update_frame(msg)
    /\ selection_index' = msg.idx
    /\ messages' = rest
    /\ UNCHANGED <<focused, search_text, futures>>

\* Msg::Focus testing disabled alone.
UpdateFocus_IgnoresReadonly(msg) ==
    /\ msg.name = "Focus"
    /\ msg \in incoming
    /\ update_frame(msg)
    /\ messages' = rest
    /\ focused' = IF \E p \in props : p.disabled THEN focused ELSE TRUE
    /\ UNCHANGED <<selection_index, search_text, futures>>

\* Msg::Focus
UpdateFocus(msg) ==
    /\ msg.name = "Focus"
    /\ msg \in incoming
    /\ update_frame(msg)
    /\ messages' = rest
    /\ focused' = IF \E p \in props : p.disabled \/ p.readonly THEN focused ELSE TRUE
    /\ UNCHANGED <<selection_index, search_text, futures>>

\* Msg::Blur leaving the highlighted row where it is.
UpdateBlur_KeepsRow(msg) ==
    /\ msg.name = "Blur"
    /\ msg \in incoming
    /\ update_frame(msg)
    /\ focused' = FALSE
    /\ search_text' = <<>>
    /\ messages' = rest
    /\ UNCHANGED <<selection_index, futures>>

\* Msg::Blur
UpdateBlur(msg) ==
    /\ msg.name = "Blur"
    /\ msg \in incoming
    /\ update_frame(msg)
    /\ focused' = FALSE
    /\ selection_index' = 0
    /\ search_text' = <<>>
    /\ messages' = rest
    /\ UNCHANGED futures

\* The Enter arm of Msg::KeyPress: the messages it sends.
enter ==
    LET found == UNION {get_filtered(c.options, filtered_indices, selection_index) :
                            c \in clone}
    IN IF found # {} THEN <<Msg_Selected((CHOOSE e \in found : TRUE)[1])>> ELSE <<>>

\* Msg::KeyPress(event); ArrowDown stops at row MaxLen, one past the last.
UpdateKeyPress(msg) ==
    /\ msg.name = "KeyPress"
    /\ msg \in incoming
    /\ update_frame(msg)
    /\ UNCHANGED futures
    /\ IF \E p \in props : p.disabled \/ p.readonly
       THEN /\ messages' = rest
            /\ UNCHANGED <<focused, selection_index, search_text>>
       ELSE CASE msg.code = "Enter" ->
                    /\ messages' = rest \o enter
                    /\ UNCHANGED <<focused, selection_index, search_text>>
              [] msg.code = "Escape" ->
                    /\ focused' = FALSE
                    /\ selection_index' = 0
                    /\ search_text' = <<>>
                    /\ messages' = rest
              [] msg.code = "ArrowUp" ->
                    /\ focused' = TRUE
                    /\ selection_index' =
                            IF selection_index = 0 THEN 0 ELSE selection_index - 1
                    /\ messages' = rest
                    /\ UNCHANGED search_text
              [] msg.code = "ArrowDown" ->
                    /\ selection_index < MaxLen
                    /\ focused' = TRUE
                    /\ selection_index' = selection_index + 1
                    /\ messages' = rest
                    /\ UNCHANGED search_text
              [] OTHER ->
                    /\ messages' = rest
                    /\ UNCHANGED <<focused, selection_index, search_text>>

\* Select::change: the owner rendered the Select with new properties (over
\* the same state).
Change(new_props) ==
    /\ props # {}
    /\ op' = [name |-> "change", arg |-> new_props]
    /\ ret' = FALSE
    /\ IF props # {new_props}
       THEN /\ props' = {new_props}
            /\ IF new_props.disabled
               THEN /\ focused' = FALSE
                    /\ selection_index' = 0
                    /\ search_text' = <<>>
               ELSE UNCHANGED <<focused, selection_index, search_text>>
       ELSE UNCHANGED <<props, focused, selection_index, search_text>>
    /\ UNCHANGED <<options, selected_indices, filtered_indices, filter_fn, filter_input,
                   new_in_range, clone, messages, futures>>

\* App::update: select on SelectedX(index), deselect on ClearedX(index),
\* through the handle the owner kept.
AppUpdate(msg) ==
    /\ msg.name \in {"App::Selected", "App::Cleared"}
    /\ msg \in incoming
    /\ LET r == IF msg.name = "App::Selected"
                THEN SelectState_select(options, selected_indices, msg.idx)
                ELSE SelectState_deselect(options, selected_indices, msg.idx)
       IN /\ selected_indices' = r.sel
          /\ ret' = r.changed
    /\ op' = [name |-> IF msg.name = "App::Selected" THEN "select" ELSE "deselect",
              arg |-> msg.idx]
    /\ messages' = rest
    /\ UNCHANGED <<options, filtered_indices, filter_fn, filter_input, new_in_range,
                   clone, props, focused, selection_index, search_text, futures>>

\* A future narrowing the previous filter result instead of replacing it.
run_NarrowsPrevious(c, future) ==
    LET r == IF future.name = "filter" THEN filter(c.options, c.filter_fn, future.input)
             ELSE [filter_input |-> filter_input, filtered_indices |-> unfilter]
    IN IF future.name = "filter" /\ filtered_indices.tag = "None"
       THEN [filter_input |-> r.filter_input, filtered_indices |-> filtered_indices]
       ELSE r

\* The body of a future of update: unfilter or filter on its clone of the
\* state; what it writes to filter_input and filtered_indices.
run(c, future) ==
    IF future.name = "filter"
    THEN filter(c.options, c.filter_fn, future.input)
    ELSE [filter_input |-> filter_input, filtered_indices |-> unfilter]

\* The oldest future runs to its end and sends Msg::Filtered.
RunFuture ==
    /\ futures # <<>>
    /\ messages = <<>>
    /\ \E c \in clone :
        LET r == run(c, Head(futures))
        IN /\ filter_input' = write(c.filter_input, filter_input, r.filter_input)
           /\ filtered_indices' =
                    write(c.filtered_indices, filtered_indices, r.filtered_indices)
    /\ futures' = Tail(futures)
    /\ messages' = <<Msg_Filtered>>
    /\ op' = [name |-> "future", arg |-> Head(futures)]
    /\ ret' = FALSE
    /\ UNCHANGED <<options, selected_indices, filter_fn, new_in_range, clone, props,
                   focused, selection_index, search_text>>

Next ==
    \/ \E index \in 0..Len(options) : Select(index)
    \/ \E index \in 0..Len(options) : Deselect(index)
    \/ Clear
    \/ \E input \in Queries : Filter(input)
    \/ Unfilter
    \/ \E new_options \in Lists : ReplaceOptions(new_options)
    \/ \E new_options \in Lists, eq \in EqFns :
            ReplaceOptionsReselecting(new_options, eq)

Spec == Init /\ [][Next]_vars

\* The lists given to two handles: of one item, since what two handles can
\* come to disagree on is the length of their lists.
ListsOfFirst == {l \in Lists : \A k \in 1..Len(l) : l[k] = First}

\* Two handles: the one new returned and its clone.
InitClones ==
    /\ options \in ListsOfFirst
    /\ selected_indices \in {Selection_one(0), Selection_none, Selection_empty}
    /\ filtered_indices = Filtered_All
    /\ filter_fn \in FilterFns
    /\ filter_input = {}
    /\ op = [name |-> "new", arg |-> 0]
    /\ ret = FALSE
    /\ new_in_range = (as_set(selected_indices) \subseteq Indices(options))
    /\ clone = {}
    /\ props = {}
    /\ Select_create

NextClones ==
    \/ Clone
    \/ \E index \in 0..Len(options) : Select(index)
    \/ \E index \in 0..Len(options) : Deselect(index)
    \/ Clear
    \/ \E input \in Queries : Filter(input)
    \/ Unfilter
    \/ \E new_options \in ListsOfFirst : ReplaceOptions(new_options)
    \/ \E new_options \in ListsOfFirst, eq \in EqFns :
            ReplaceOptionsReselecting(new_options, eq)
    \/ \E c \in clone : \E index \in 0..Len(c.options) : CloneSelect(index)
    \/ \E c \in clone : \E index \in 0..Len(c.options) : CloneDeselect(index)
    \/ CloneClear
    \/ \E input \in Queries : CloneFilter(input)
    \/ CloneUnfilter
    \/ \E new_options \in ListsOfFirst : CloneReplaceOptions(new_options)
    \/ \E new_options \in ListsOfFirst, eq \in EqFns :
            CloneReplaceOptionsReselecting(new_options, eq)

SpecClones == InitClones /\ [][NextClones]_vars

\* A mounted Select over a clone of the state its owner keeps, as in the
\* example: a list of MaxLen items and one of the example's three selections.
\* The owner answers the callbacks as the example does, and may have called
\* filter("") before the Select was mounted.
InitSelect ==
    /\ options = [k \in 1..MaxLen |-> First]
    /\ selected_indices \in {Selection_one(0), Selection_none, Selection_empty}
    /\ filter_fn \in FilterFns
    /\ \/ filtered_indices = Filtered_All /\ filter_input = {}
       \/ LET r == filter(options, filter_fn, <<>>)
          IN filtered_indices = r.filtered_indices /\ filter_input = r.filter_input
    /\ op = [name |-> "new", arg |-> 0]
    /\ ret = FALSE
    /\ new_in_range = TRUE
    /\ clone = {SelectState_clone(self)}
    /\ props \in {{p} : p \in SelectProps}
    /\ Select_create

\* The messages update and App::update can be called with.
Msgs ==
    {Msg_Input(input) : input \in Inputs}
    \cup {Msg_ClearSearch, Msg_Filtered, Msg_Focus, Msg_Blur}
    \cup {Msg_Selected(idx) : idx \in 0..MaxLen}
    \cup {Msg_Removed(idx) : idx \in 0..MaxLen}
    \cup {Msg_Hover(idx) : idx \in 0..MaxLen}
    \cup {Msg_KeyPress(code) : code \in Codes}
    \cup {App_Selected(idx) : idx \in 0..MaxLen}
    \cup {App_Cleared(idx) : idx \in 0..MaxLen}

NextSelect ==
    \/ \E msg \in Msgs : UpdateFiltered(msg)
    \/ \E msg \in Msgs : UpdateInput(msg)
    \/ \E msg \in Msgs : UpdateClearSearch(msg)
    \/ \E msg \in Msgs : UpdateSelected(msg)
    \/ \E msg \in Msgs : UpdateRemoved(msg)
    \/ \E msg \in Msgs : UpdateHover(msg)
    \/ \E msg \in Msgs : UpdateFocus(msg)
    \/ \E msg \in Msgs : UpdateBlur(msg)
    \/ \E msg \in Msgs : UpdateKeyPress(msg)
    \/ \E msg \in Msgs : AppUpdate(msg)
    \/ RunFuture

SpecSelect == InitSelect /\ [][NextSelect]_vars

\* The page delivers an event only to a component at rest: the messages sent
\* while update ran are handled first, and a future given to send_future runs
\* before the next event.
at_rest == messages # <<>> \/ futures = <<>>

NextAtRest ==
    \/ \E msg \in Msgs : at_rest /\ UpdateFiltered(msg)
    \/ \E msg \in Msgs : at_rest /\ UpdateInput(msg)
    \/ \E msg \in Msgs : at_rest /\ UpdateClearSearch(msg)
    \/ \E msg \in Msgs : at_rest /\ UpdateSelected(msg)
    \/ \E msg \in Msgs : at_rest /\ UpdateRemoved(msg)
    \/ \E msg \in Msgs : at_rest /\ UpdateHover(msg)
    \/ \E msg \in Msgs : at_rest /\ UpdateFocus(msg)
    \/ \E msg \in Msgs : at_rest /\ UpdateBlur(msg)
    \/ \E msg \in Msgs : at_rest /\ UpdateKeyPress(msg)
    \/ \E msg \in Msgs : at_rest /\ AppUpdate(msg)
    \/ RunFuture

\* What runs without an event of the page: the handling of a message sent
\* and the oldest future.
Scheduled == (messages # <<>> \/ futures # <<>>) /\ NextAtRest

\* The scheduler and the executor leave nothing they hold unprocessed.
SpecSelectFair == InitSelect /\ [][NextAtRest]_vars /\ WF_vars(Scheduled)

\* A Select whose owner changes its properties between the events of the page.
NextChange ==
    \/ NextAtRest
    \/ \E new_props \in SelectProps : at_rest /\ Change(new_props)

SpecChange == InitSelect /\ [][NextChange]_vars

(***************************************************************************)
(* Properties                                                              *)
(***************************************************************************)
\* The indices whose item passes the predicate for a query.
Passing(opts, fn, q) == {i \in Indices(opts) : SelectFilter_call(fn, opts[i + 1], q)}

\* The filter result the specification prescribes for a non-empty query.
Narrowed(opts, fn, q) ==
    IF Passing(opts, fn, q) = {} THEN Filtered_None ELSE Filtered_Some(Passing(opts, fn, q))

\* The indices listed by filtered_items(), in order.
ListedIndices ==
    LET items == filtered_items(options, filtered_indices, selected_indices)
    IN [k \in 1..Len(items) |-> items[k][1]]

\* C1: after filter(q) with a non-empty q the filter result is the Subset of
\* exactly the indices whose item passes the predicate for q (None when there
\* is none), and filtered_items() lists exactly those indices.
C1_FilterNarrows ==
    (op.name = "filter" /\ op.arg # <<>>) =>
        /\ filtered_indices = Narrowed(options, filter_fn, op.arg)
        /\ ListedIndices = iter(Passing(options, filter_fn, op.arg))

\* C2: after filter("") the filter result is All and filtered_items() has as
\* many entries as the option list.
C2_EmptyQueryIsAll ==
    (op.name = "filter" /\ op.arg = <<>>) =>
        /\ filtered_indices = Filtered_All
        /\ Len(ListedIndices) = Len(options)

\* C3: on an ExactlyOne selection deselect(i) and clear() return false and
\* leave the selected index as it was, for every i.
C3_ExactlyOneKeepsIndex ==
    [][(selected_indices.tag = "AlwaysOne" /\ op'.name \in {"deselect", "clear"}) =>
            (ret' = FALSE /\ selected_indices' = selected_indices)]_vars

\* C3 witness: deselect of the very index an ExactlyOne selection holds, in
\* range, returned false.
C3_Witness ==
    /\ op.name = "deselect"
    /\ selected_indices.tag = "AlwaysOne"
    /\ op.arg = selected_indices.idx
    /\ op.arg < Len(options)
    /\ ret = FALSE

\* C4: on a ZeroOrOne selection, select(i) followed by deselect(i) with i in
\* range leaves the selection empty; deselect(j) while the stored index is
\* i # j returns false and leaves the selection at i.
C4_ZeroOrOneDeselect ==
    [][(selected_indices.tag = "MaybeOne" /\ op'.name = "deselect") =>
            /\ (op.name = "select" /\ op.arg < Len(options) /\ op'.arg = op.arg) =>
                    selected_indices' = Selection_none
            /\ (selected_indices.opt # {} /\ selected_indices.opt # {op'.arg}) =>
                    (ret' = FALSE /\ selected_indices' = selected_indices)]_vars

\* C4 witness: a ZeroOrOne selection emptied by an in-range deselect of the
\* index it held.
C4_Witness ==
    /\ op.name = "deselect"
    /\ op.arg < Len(options)
    /\ selected_indices = Selection_none
    /\ ret = TRUE

\* C5: on a ZeroOrMany selection and for i in range, select(i) returns true
\* iff i was not selected and leaves i selected, deselect(i) returns true iff
\* i was selected and leaves i not selected, both keep the membership of every
\* other index, and the same call repeated at once returns false.
C5_ZeroOrManyInsertRemove ==
    [][(selected_indices.tag = "Multiple" /\ op'.name \in {"select", "deselect"}
            /\ op'.arg < Len(options)) =>
            LET i == op'.arg
                before == selected_indices.set
                after == selected_indices'.set
            IN /\ selected_indices'.tag = "Multiple"
               /\ after \ {i} = before \ {i}
               /\ op'.name = "select" => (ret' = (i \notin before) /\ i \in after)
               /\ op'.name = "deselect" => (ret' = (i \in before) /\ i \notin after)
               /\ (op.name = op'.name /\ op.arg = i) => ret' = FALSE]_vars

\* C5 witness: a select of an in-range index of a ZeroOrMany selection that
\* returned false because the index was selected already, among others.
C5_Witness ==
    /\ op.name = "select"
    /\ op.arg < Len(options)
    /\ selected_indices.tag = "Multiple"
    /\ op.arg \in selected_indices.set
    /\ Cardinality(selected_indices.set) > 1
    /\ ret = FALSE

\* C6: select, deselect and clear return true iff the selection after the
\* call differs from the selection before it, for every variant and argument.
C6_ReturnsChanged ==
    [][op'.name \in {"select", "deselect", "clear"} =>
            (ret' = (selected_indices' # selected_indices))]_vars

\* C6 witness: clear() emptied a ZeroOrMany selection and returned true.
C6_Witness ==
    /\ op.name = "clear"
    /\ selected_indices = Selection_empty
    /\ ret = TRUE

\* C7: SelectState.select(index) and deselect(index) with index >= the list
\* length return false and leave selection, filter result and stored query
\* unchanged.
C7_OutOfRangeRejected ==
    [][(op'.name \in {"select", "deselect"} /\ op'.arg >= Len(options)) =>
            /\ ret' = FALSE
            /\ UNCHANGED <<selected_indices, filtered_indices, filter_input>>]_vars

\* C7 witness: select of the first index past the end of a non-empty list on
\* a ZeroOrMany selection that does not hold it, while a query is stored.
C7_Witness ==
    /\ op.name = "select"
    /\ op.arg = Len(options)
    /\ options # <<>>
    /\ selected_indices.tag = "Multiple"
    /\ op.arg \notin selected_indices.set
    /\ filter_input # {}
    /\ ret = FALSE

\* C8: from a construction whose selected indices are all within the list,
\* every index the selection holds is smaller than the length of the current
\* option list, whatever was selected, deselected, cleared or replaced.
C8_SelectionInRange ==
    new_in_range => as_set(selected_indices) \subseteq Indices(options)

\* C8 as amended: the same, except that an ExactlyOne selection holds index 0
\* while the option list is empty.
C8_SelectionInRangeOrEmptyList ==
    new_in_range =>
        \/ as_set(selected_indices) \subseteq Indices(options)
        \/ (options = <<>> /\ selected_indices = Selection_one(0))

\* C8 witness: a ZeroOrMany selection that still holds an index after the
\* list was replaced by a shorter, one-item list, reselecting.
C8_Witness ==
    /\ new_in_range
    /\ op.name = "replace_options_reselecting"
    /\ Len(options) = 1
    /\ selected_indices.tag = "Multiple"
    /\ selected_indices.set # {}

\* C9: every index in a Subset filter result is smaller than the length of
\* the current option list.
C9_SubsetInRange ==
    filtered_indices.tag = "Some" => filtered_indices.set \subseteq Indices(options)

\* C10: after replace_options or replace_options_reselecting the filter
\* result is the predicate applied with the stored query to the items of the
\* new list (None if no new item passes), and All when no query is stored.
C10_ReplaceRefiltersNewList ==
    op.name \in {"replace_options", "replace_options_reselecting"} =>
        filtered_indices =
            IF filter_input = {} THEN Filtered_All
            ELSE Narrowed(options, filter_fn, CHOOSE q \in filter_input : TRUE)

\* C11: replace_options resets the selection by its variant, whatever was
\* selected: ExactlyOne becomes index 0, ZeroOrOne becomes empty, ZeroOrMany
\* becomes the empty set, and the variant is kept.
C11_ReplaceResetsSelection ==
    [][op'.name = "replace_options" =>
            /\ selected_indices'.tag = selected_indices.tag
            /\ selected_indices.tag = "AlwaysOne" => selected_indices' = Selection_one(0)
            /\ selected_indices.tag = "MaybeOne" => selected_indices' = Selection_none
            /\ selected_indices.tag = "Multiple" => selected_indices' = Selection_empty]_vars

\* C11 witness: a ZeroOrMany selection is empty right after replace_options
\* stored a two-item list.
C11_Witness ==
    /\ op.name = "replace_options"
    /\ Len(options) = 2
    /\ selected_indices = Selection_empty

\* The smallest index of new_items whose item equals old_items[i] under eq
\* (as a set: empty when i is outside old_items or nothing is equal).
FirstEqual(old_items, new_items, eq, i) ==
    {j \in Indices(new_items) :
        /\ i < Len(old_items)
        /\ selection_eq(eq, old_items[i + 1], new_items[j + 1])
        /\ \A k \in 0..(j - 1) : ~selection_eq(eq, old_items[i + 1], new_items[k + 1])}

\* C12: replace_options_reselecting maps each selected index i to the smallest
\* index j of the new list whose item equals the old item at i; a ZeroOrOne or
\* ZeroOrMany selection becomes exactly the set of those j.
C12_ReselectsFirstEqual ==
    [][(op'.name = "replace_options_reselecting"
            /\ selected_indices.tag \in {"MaybeOne", "Multiple"}) =>
            /\ selected_indices'.tag = selected_indices.tag
            /\ as_set(selected_indices') =
                    UNION {FirstEqual(options, options', op'.arg, i) :
                                i \in as_set(selected_indices)}]_vars

\* C12 witness: reselecting by value put a ZeroOrMany selection on index 0 of
\* the list (First, Blank), whose two items are equal by value.
C12_Witness ==
    /\ op.name = "replace_options_reselecting"
    /\ op.arg = "by_value"
    /\ options = <<First, Blank>>
    /\ selected_indices = Selection_multiple({0})

\* C13: replace_options_reselecting on an ExactlyOne selection yields the first
\* index of the new list equal to the selected item, and index 0 when the new
\* list holds no equal item.
C13_ExactlyOneReselects ==
    [][(op'.name = "replace_options_reselecting" /\ selected_indices.tag = "AlwaysOne") =>
            LET found == FirstEqual(options, options', op'.arg, selected_indices.idx)
            IN selected_indices' =
                    Selection_one(IF found = {} THEN 0 ELSE CHOOSE j \in found : TRUE)]_vars

\* C13 witness: reselecting left an ExactlyOne selection on index 1, the first
\* item of the new list equal to the selected one.
C13_Witness ==
    /\ op.name = "replace_options_reselecting"
    /\ op.arg = "partial_eq"
    /\ selected_indices = Selection_one(1)
    /\ Len(options) = 2

\* C14: an ExactlyOne selection stays ExactlyOne and holds exactly one index
\* after every select, deselect, clear, replace_options and
\* replace_options_reselecting.
C14_ExactlyOneStays ==
    [][selected_indices.tag = "AlwaysOne" =>
            /\ selected_indices'.tag = "AlwaysOne"
            /\ len(selected_indices') = 1
            /\ ~is_empty(selected_indices')]_vars

\* C14 witness: an ExactlyOne selection right after clear().
C14_Witness ==
    /\ op.name = "clear"
    /\ selected_indices.tag = "AlwaysOne"
    /\ len(selected_indices) = 1

\* The items listed by filtered_items(), in order.
ListedItems ==
    LET items == filtered_items(options, filtered_indices, selected_indices)
    IN [k \in 1..Len(items) |-> items[k][3]]

\* C15: filter(q) followed by unfilter() leaves the filter result All, and
\* filtered_items() lists every item of the list in list order.
C15_FilterThenUnfilter ==
    [][(op.name = "filter" /\ op'.name = "unfilter") =>
            /\ filtered_indices' = Filtered_All
            /\ ListedIndices' = iter(Indices(options'))
            /\ ListedItems' = options']_vars

\* C15 witness: unfilter() left All over a non-empty list while the query of
\* an earlier filter call is still stored.
C15_Witness ==
    /\ op.name = "unfilter"
    /\ filter_input # {}
    /\ options # <<>>
    /\ filtered_indices = Filtered_All

\* C16: unfilter() sets the filter result to All and clears the stored query.
C16_UnfilterClearsQuery ==
    op.name = "unfilter" => (filtered_indices = Filtered_All /\ filter_input = {})

\* C17: after filter(q) the stored query is q when q is non-empty and none
\* when q is empty; the stored query is never the empty string.
C17_StoredQuery ==
    /\ op.name = "filter" =>
            filter_input = (IF op.arg # <<>> THEN {op.arg} ELSE {})
    /\ \A q \in filter_input : q # <<>>

\* C18: the filter result is never a Subset of no index; a scan that no item
\* passes is stored as None.
C18_SubsetNeverEmpty ==
    filtered_indices.tag = "Some" => filtered_indices.set # {}

\* C18 witness: a filter call over a non-empty list that no item passed left
\* None.
C18_Witness ==
    /\ op.name = "filter"
    /\ options # <<>>
    /\ Passing(options, filter_fn, op.arg) = {}
    /\ filtered_indices = Filtered_None

\* C19: after filter(q), get_filtered(0) is the entry of the smallest index
\* whose item passes the predicate for q, and nothing when no item passes.
C19_FirstFilteredIsSmallestPassing ==
    op.name = "filter" =>
        get_filtered(options, filtered_indices, 0) =
            {<<i, options[i + 1]>> : i \in nth(Passing(options, filter_fn, op.arg), 0)}

\* C20: for every position p, get_filtered(p) is the (index, item) of the p-th
\* entry of filtered_items() when there are more than p entries and nothing
\* otherwise.
C20_GetFilteredIsNthListed ==
    \A p \in 0..(Len(options) + 1) :
        get_filtered(options, filtered_indices, p) =
            IF p < Len(ListedIndices)
            THEN {<<ListedIndices[p + 1], ListedItems[p + 1]>>}
            ELSE {}

\* C20 witness: the filter result is a proper subset whose first entry is not
\* at index 0, so position and index differ.
C20_Witness ==
    /\ filtered_indices = Filtered_Some({1})
    /\ Len(options) = 2
    /\ get_filtered(options, filtered_indices, 0) = {<<1, options[2]>>}

\* The indices listed by selected_items(), in order.
SelectedIndices(opts, sel) ==
    LET items == selected_items(opts, sel)
    IN [k \in 1..Len(items) |-> items[k][1]]

\* The indices a filter result admits over a list.
Admitted(opts, filtered) ==
    CASE filtered.tag = "All" -> Indices(opts)
      [] filtered.tag = "Some" -> filtered.set \cap Indices(opts)
      [] filtered.tag = "None" -> {}

\* C21: filtered_items() lists, in strictly ascending index order, every
\* in-range index the filter result admits (all under All, the subset's under
\* Subset, none under None), each with its item and with an is_selected flag
\* that is true exactly when the selection includes the index.
C21_FilteredItemsListing ==
    LET items == filtered_items(options, filtered_indices, selected_indices)
    IN /\ \A k \in 1..(Len(items) - 1) : items[k][1] < items[k + 1][1]
       /\ {items[k][1] : k \in 1..Len(items)} = Admitted(options, filtered_indices)
       /\ \A k \in 1..Len(items) :
            /\ items[k][2] = (items[k][1] \in as_set(selected_indices))
            /\ items[k][3] = options[items[k][1] + 1]

\* A subset that leaves out index 0 lists a selected index at its first row,
\* while index 0 is not selected.
C21_Witness ==
    /\ filtered_indices.tag = "Some"
    /\ 0 \notin filtered_indices.set
    /\ \E i \in filtered_indices.set : i \in as_set(selected_indices) /\ i < Len(options)
    /\ 0 \notin as_set(selected_indices)

\* C22: on a ZeroOrMany state an in-range select(i) adds i to the indices
\* selected_items() lists, an in-range deselect(i) removes it and clear leaves
\* none; the listing is strictly ascending, so each index appears once, and
\* pairs every index with the item at it (select(1), select(3), deselect(1) on
\* the example list gives [(3, Fourth)]); a single-valued variant lists at most
\* one entry.
C22_SelectedItemsListing ==
    [][LET before == Range(SelectedIndices(options, selected_indices))
           items == selected_items(options', selected_indices')
           after == {items[k][1] : k \in 1..Len(items)}
       IN /\ \A k \in 1..(Len(items) - 1) : items[k][1] < items[k + 1][1]
          /\ \A k \in 1..Len(items) : items[k][2] = options'[items[k][1] + 1]
          /\ ~is_multiple(selected_indices') => Len(items) <= 1
          /\ (is_multiple(selected_indices) /\ op'.name = "select"
                    /\ op'.arg < Len(options)) => after = before \cup {op'.arg}
          /\ (is_multiple(selected_indices) /\ op'.name = "deselect"
                    /\ op'.arg < Len(options)) => after = before \ {op'.arg}
          /\ (is_multiple(selected_indices) /\ op'.name = "clear") => after = {}]_vars

\* The scenario: index 1 was deselected on the example list and (3, Fourth) is
\* all that selected_items() lists.
C22_Witness ==
    /\ options = ExampleList
    /\ op = [name |-> "deselect", arg |-> 1]
    /\ ret
    /\ selected_items(options, selected_indices) = <<<<3, Fourth>>>>

\* C23: first_selected() is the first entry of selected_items(), and is
\* nothing exactly when selected_items() is empty.
C23_FirstSelectedIsFirstListed ==
    LET items == selected_items(options, selected_indices)
        first == first_selected(options, selected_indices)
    IN /\ (first = {}) = (items = <<>>)
       /\ items # <<>> => first = {items[1]}

\* A select left several in-range indices in a ZeroOrMany selection.
C23_Witness ==
    /\ is_multiple(selected_indices)
    /\ Len(selected_items(options, selected_indices)) >= 2
    /\ first_selected(options, selected_indices) # {}
    /\ op.name = "select"

\* C27: select, deselect and clear leave the filter result and the stored
\* query as they were; filter and unfilter leave the selection as it was.
C27_SelectionAndFilterIndependent ==
    [][/\ op'.name \in {"select", "deselect", "clear"} =>
            /\ filtered_indices' = filtered_indices
            /\ filter_input' = filter_input
       /\ op'.name \in {"filter", "unfilter"} =>
            selected_indices' = selected_indices]_vars

\* A clear that emptied a selection while a subset and a query were stored.
C27_Witness ==
    /\ op.name = "clear"
    /\ ret
    /\ filtered_indices.tag = "Some"
    /\ filter_input # {}

\* C29: no call changes the variant of the selection: is_multiple() and
\* is_nullable() return after every call what they returned before it, and
\* they are false/false for ExactlyOne, false/true for ZeroOrOne and true/true
\* for ZeroOrMany.
C29_VariantFixed ==
    [][/\ is_multiple(selected_indices') = is_multiple(selected_indices)
       /\ is_nullable(selected_indices') = is_nullable(selected_indices)
       /\ selected_indices'.tag = selected_indices.tag
       /\ <<is_multiple(selected_indices'), is_nullable(selected_indices')>> =
            CASE selected_indices'.tag = "AlwaysOne" -> <<FALSE, FALSE>>
              [] selected_indices'.tag = "MaybeOne" -> <<FALSE, TRUE>>
              [] selected_indices'.tag = "Multiple" -> <<TRUE, TRUE>>]_vars

\* An ExactlyOne selection went through a replacement of the list.
C29_Witness ==
    /\ op.name = "replace_options"
    /\ selected_indices.tag = "AlwaysOne"
    /\ ~is_multiple(selected_indices)
    /\ ~is_nullable(selected_indices)
\* C24: a handle and its clone hold one selection and one filter state: both
\* read the same selection, filter result and stored query, and what select,
\* deselect, clear, filter or unfilter wrote through the clone is what the
\* first handle reads afterwards.
C24_ClonesShareState ==
    [][\A c \in clone' :
        /\ read(c.selected_indices, selected_indices') =
                read(self.selected_indices, selected_indices')
        /\ read(c.filtered_indices, filtered_indices') =
                read(self.filtered_indices, filtered_indices')
        /\ read(c.filter_input, filter_input') = read(self.filter_input, filter_input')
        /\ (op'.name = "clone.select" /\ op'.arg < Len(c.options)) =>
                includes(selected_indices', op'.arg)
        /\ (op'.name = "clone.deselect" /\ op'.arg < Len(c.options)
                    /\ is_nullable(selected_indices)) =>
                ~includes(selected_indices', op'.arg)
        /\ (op'.name = "clone.clear" /\ is_nullable(selected_indices)) =>
                is_empty(selected_indices')
        /\ op'.name = "clone.filter" =>
                /\ filtered_indices' =
                        filter(c.options, c.filter_fn, op'.arg).filtered_indices
                /\ filter_input' = filter(c.options, c.filter_fn, op'.arg).filter_input
        /\ op'.name = "clone.unfilter" => filtered_indices' = Filtered_All]_vars

\* A select through the clone changed the selection, and selected_items()
\* of the first handle lists the index.
C24_Witness ==
    /\ clone # {}
    /\ op.name = "clone.select"
    /\ ret
    /\ op.arg \in Range(SelectedIndices(options, selected_indices))

\* C28: after replace_options or replace_options_reselecting through either
\* handle, both handles hold the same list, and selected_items() and
\* filtered_items() return the same entries through both.
C28_ClonesResolveAlike ==
    [][op'.name \in {"replace_options", "replace_options_reselecting",
                     "clone.replace_options", "clone.replace_options_reselecting"} =>
        \A c \in clone' :
            /\ c.options = options'
            /\ selected_items(c.options, selected_indices') =
                    selected_items(options', selected_indices')
            /\ filtered_items(c.options, filtered_indices', selected_indices') =
                    filtered_items(options', filtered_indices', selected_indices')]_vars
\* C25: filter calls are last-write-wins: the futures update scheduled run
\* oldest first, and whatever filter result and stored query were there
\* before, a filter future leaves exactly those of its own call of filter(q)
\* alone, and an unfilter future leaves All; both are written in the one
\* step, no state in between is seen.
C25_LastWriteWins ==
    [][op'.name = "future" =>
        /\ op'.arg = Head(futures)
        /\ futures' = Tail(futures)
        /\ \A c \in clone :
            /\ op'.arg.name = "filter" =>
                /\ filtered_indices' =
                        filter(c.options, c.filter_fn, op'.arg.input).filtered_indices
                /\ filter_input' =
                        filter(c.options, c.filter_fn, op'.arg.input).filter_input
            /\ op'.arg.name = "unfilter" =>
                /\ filtered_indices' = Filtered_All
                /\ filter_input' = filter_input]_vars

\* Two filter futures were scheduled over an earlier filter result with a
\* stored query; the first has run and overwritten both, the second is left.
C25_Witness ==
    /\ op.name = "future"
    /\ op.arg.name = "filter"
    /\ futures # <<>>
    /\ Head(futures).name = "filter"
    /\ filtered_indices = Filtered_All
    /\ filter_input = {}
    /\ \E c \in clone : refilter(c.options, c.filter_fn, {<<>>}) # Filtered_All

\* C26: when Enter is pressed with row N of the displayed dropdown
\* highlighted, the Selected message sent carries the index of the item
\* displayed at row N, with omit_selected false and true.
C26_EnterSelectsHighlightedRow ==
    [][(op'.name = "KeyPress" /\ op'.arg.code = "Enter") =>
        \A p \in props, c \in clone :
            (~p.disabled /\ ~p.readonly /\ selection_index < Len(view_options(p, c)))
                => messages' =
                     rest \o <<Msg_Selected(view_options(p, c)[selection_index + 1][1])>>]_vars

\* C30: no message the Select handles and no future it scheduled changes the
\* selection; Selected(idx) sends the owner the onselected callback with idx
\* (and the batch ClearSearch, Blur), Removed(idx) the onremoved callback with
\* idx; the selection changes only in a call of select, deselect, clear or
\* replace_options* by the owner.
C30_SelectLeavesSelection ==
    [][/\ op'.name \in {"Input", "ClearSearch", "Filtered", "Selected", "Removed", "Hover",
                        "Focus", "Blur", "KeyPress", "future"} =>
            selected_indices' = selected_indices
       /\ op'.name = "Selected" =>
            messages' = rest \o <<App_Selected(op'.arg.idx), Msg_ClearSearch, Msg_Blur>>
       /\ op'.name = "Removed" =>
            messages' = rest \o <<App_Cleared(op'.arg.idx)>>
       /\ selected_indices' # selected_indices =>
            op'.name \in {"select", "deselect", "clear", "replace_options",
                          "replace_options_reselecting"}]_vars

\* Selected(idx) was handled, the selection not touched by it; the owner then
\* called select(idx), which changed it, and ClearSearch and Blur are left.
C30_Witness ==
    /\ props # {}
    /\ op.name = "select"
    /\ ret
    /\ includes(selected_indices, op.arg)
    /\ messages = <<Msg_ClearSearch, Msg_Blur>>
\* C31: once Selected(idx) is handled, the Select comes to a state with the
\* dropdown closed, the search text empty, row 0 highlighted and the filter
\* result All, given that the messages it sent and the future ClearSearch
\* schedules are processed.
C31_SelectedClosesDropdown ==
    (op.name = "Selected") ~>
        (/\ focused = FALSE
         /\ search_text = <<>>
         /\ selection_index = 0
         /\ filtered_indices = Filtered_All)

\* Selected was handled on an open dropdown with a typed text and a
\* highlighted row other than 0; ClearSearch and Blur are yet to be handled.
C31_Witness ==
    /\ op.name = "Selected"
    /\ focused
    /\ search_text # <<>>
    /\ selection_index # 0
    /\ Msg_Blur \in Range(messages)
\* C32: while the Select is disabled or readonly, handling Input, Focus or
\* KeyPress changes nothing: focused, the highlighted row, the search text and
\* the state's filter result stay as they were, no future is scheduled and no
\* message (so no Selected) is sent.
C32_InertWhenDisabledOrReadonly ==
    [][((\E p \in props : p.disabled \/ p.readonly)
            /\ op'.name \in {"Input", "Focus", "KeyPress"})
        => /\ focused' = focused
           /\ selection_index' = selection_index
           /\ search_text' = search_text
           /\ filtered_indices' = filtered_indices
           /\ filter_input' = filter_input
           /\ futures' = futures
           /\ messages' = rest]_vars

\* A readonly Select that still shows an open dropdown with a typed text and a
\* highlighted row other than 0 has just handled Enter.
C32_Witness ==
    /\ \E p \in props : p.readonly
    /\ op.name = "KeyPress"
    /\ op.arg.code = "Enter"
    /\ focused
    /\ search_text # <<>>
    /\ selection_index # 0

\* C33: the highlighted row position is smaller than the number of rows the
\* dropdown displays, or is 0 when it displays no row.
C33_HighlightedRowDisplayed ==
    \A p \in props : \A c \in clone :
        LET n == Len(view_options(p, c))
        IN IF n = 0 THEN selection_index = 0 ELSE selection_index < n

====
